---- MODULE Spec2Model ----
(***************************************************************************)
(* A model of py_playground.snapshot_map.SnapshottableMap: a map whose     *)
(* keys carry a history of (snap_id, value) entries, with a counter that   *)
(* take_snapshot advances.  The program variables are _key_history_store   *)
(* and _next_snap_id; the remaining variables are history variables that   *)
(* record what the callers did and saw, so that the properties of the      *)
(* specification can be stated.                                            *)
(*                                                                         *)
(* A Python value of type `int | None` is modelled as a sequence of length *)
(* at most one: <<>> is None and <<x>> is the integer x.                   *)
(***************************************************************************)
EXTENDS Integers, Sequences, FiniteSets

\* ---------------------------------------------------------------- bounds
\* take_snapshot is called at most MaxSnap times.
MaxSnap == 2

Keys == {"a", "b"}
None == <<>>
Some(x) == <<x>>
\* put is called with these integers (and with None).
Ints == {1, 2}
Values == {Some(x) : x \in Ints} \cup {None}
\* snap_id arguments of get_from_snapshot when the counter is n: every valid
\* id, one below the range and two above it.
SnapArgs(n) == (0 - 1)..(n + 1)

VARIABLES
    key_history_store,  \* self._key_history_store: key -> list of HistoryEntry
    next_snap_id,       \* self._next_snap_id
    snapshots,          \* history: the values take_snapshot returned, in call order
    views,              \* history: views[i][k] is what get(k) returned right after the i-th take_snapshot
    lastWrite,          \* history: per key, <<>> or <<v>>, v the value of the most recent put (None for a delete)
    pending,            \* history: per key, <<>> or <<v>>, v the value last put since the last take_snapshot
    ret                 \* history: the call that has just returned, its arguments and its outcome

\* The state of the parts modelled further down; each specification leaves the
\* variables of the other parts as they are.
VARIABLES
    search,             \* get_from_snapshot's binary search, one loop iteration at a time
    race,               \* two unsynchronised callers of take_snapshot
    validator           \* a JsonValidator instance and the outcome of its last validate call

others == <<search, race, validator>>

vars == <<key_history_store, next_snap_id, snapshots, views, lastWrite, pending, ret>>

\* ------------------------------------------------------------ outcomes
Return(v) == [kind |-> "return", value |-> v, msg |-> ""]
Raise(e, m) == [kind |-> e, value |-> None, msg |-> m]

HistoryEntry(s, v) == [snap_id |-> s, value |-> v]

\* dict.get(k): the list stored for k, or None (modelled as the empty list,
\* which `not history` treats alike).
StoreGet(store, k) == IF k \in DOMAIN store THEN store[k] ELSE <<>>

\* ----------------------------------------------------------------- put
\* Faulty variant: never coalesces.
PutHistoryAlwaysAppend(history, n, v) == Append(history, HistoryEntry(n, v))

\* Faulty variant: overwrites the last entry whatever its tag.
PutHistoryAlwaysOverwrite(history, n, v) ==
    IF history # <<>>
    THEN [history EXCEPT ![Len(history)].value = v]
    ELSE Append(history, HistoryEntry(n, v))

\* Faulty variant: tags with the id the last take_snapshot returned.
PutHistoryTagPrevious(history, n, v) ==
    IF history # <<>> /\ history[Len(history)].snap_id = n - 1
    THEN [history EXCEPT ![Len(history)].value = v]
    ELSE Append(history, HistoryEntry(n - 1, v))

\* The list of k after put(k, v), from the list setdefault(k, []) yields: the
\* last entry is overwritten if it is tagged n, and an entry is appended if not.
PutHistory(history, n, v) ==
    IF history # <<>> /\ history[Len(history)].snap_id = n
    THEN [history EXCEPT ![Len(history)].value = v]
    ELSE Append(history, HistoryEntry(n, v))

\* The store after put(k, v): setdefault(k, []) gives k an empty list if it
\* has none.
PutStore(store, n, k, v) ==
    IF k \in DOMAIN store
    THEN [store EXCEPT ![k] = PutHistory(store[k], n, v)]
    ELSE [x \in DOMAIN store \cup {k} |->
            IF x = k THEN PutHistory(<<>>, n, v) ELSE store[x]]

\* Faulty variant: records a tombstone for a key that has no list, too.
DeleteStoreAlwaysPut(store, n, k) ==
    IF k \in DOMAIN store
    THEN [store EXCEPT ![k] = PutHistory(store[k], n, None)]
    ELSE [x \in DOMAIN store \cup {k} |->
            IF x = k THEN PutHistory(<<>>, n, None) ELSE store[x]]

\* Faulty variant: forgets the history of the key.
DeleteStoreDropsHistory(store, n, k) ==
    IF k \in DOMAIN store
    THEN [store EXCEPT ![k] = <<HistoryEntry(n, None)>>]
    ELSE store

\* The store after delete(k).
DeleteStore(store, n, k) ==
    IF k \in DOMAIN store THEN PutStore(store, n, k, None) ELSE store

\* ----------------------------------------------------------------- get
\* Faulty variant: the lookup gives a key that has no list an empty one
\* (setdefault, or a defaultdict).
StoreAfterLookupSetdefault(store, k) ==
    IF k \in DOMAIN store
    THEN store
    ELSE [x \in DOMAIN store \cup {k} |-> IF x = k THEN <<>> ELSE store[x]]

\* The store after self._key_history_store.get(k): dict.get inserts nothing.
StoreAfterLookup(store, k) == store

\* Faulty variant: reads the first entry instead of the last.
GetFirstEntry(store, k) ==
    LET history == StoreGet(store, k) IN
    IF history = <<>>
    THEN Raise("KeyError", "not found in current map state")
    ELSE IF history[1].value = None
         THEN Raise("KeyError", "not found (it may have been deleted)")
         ELSE Return(history[1].value)

Get(store, k) ==
    LET history == StoreGet(store, k) IN
    IF history = <<>>
    THEN Raise("KeyError", "not found in current map state")
    ELSE LET latest_value == history[Len(history)].value IN
         IF latest_value = None
         THEN Raise("KeyError", "not found (it may have been deleted)")
         ELSE Return(latest_value)

\* -------------------------------------------------------- take_snapshot
\* Faulty variant: returns the counter after the increment.
TakeSnapshotReturnAfterIncrement(n) == n + 1

\* snap_id = self._next_snap_id, the value returned.
TakeSnapshotReturn(n) == n

\* Faulty variant: skips an id.
IncrementSnapIdByTwo(n) == n + 2

\* self._next_snap_id += 1
IncrementSnapId(n) == n + 1

\* ---------------------------------------------------- get_from_snapshot
\* Faulty variant: accepts snap_id = n.
InRangeInclusive(snap_id, n) == 0 <= snap_id /\ snap_id <= n

\* 0 <= snap_id < self._next_snap_id
InRange(snap_id, n) == 0 <= snap_id /\ snap_id < n

\* Faulty variant: compares with < instead of <=.
RECURSIVE BinarySearchStrict(_, _, _, _, _)
BinarySearchStrict(history, snap_id, left, right, idx) ==
    IF left <= right
    THEN LET mid == (left + right) \div 2 IN
         IF history[mid + 1].snap_id < snap_id
         THEN BinarySearchStrict(history, snap_id, mid + 1, right, mid)
         ELSE BinarySearchStrict(history, snap_id, left, mid - 1, idx)
    ELSE idx

\* The while loop: left, right, idx and mid are 0-based list indices.
RECURSIVE BinarySearch(_, _, _, _, _)
BinarySearch(history, snap_id, left, right, idx) ==
    IF left <= right
    THEN LET mid == (left + right) \div 2 IN
         IF history[mid + 1].snap_id <= snap_id
         THEN BinarySearch(history, snap_id, mid + 1, right, mid)
         ELSE BinarySearch(history, snap_id, left, mid - 1, idx)
    ELSE idx

\* Faulty variant: returns a tombstone as None.
ResolveNoTombstoneCheck(history, idx) ==
    IF idx = 0 - 1 THEN Return(None) ELSE Return(history[idx + 1].value)

\* Faulty variant: raises when no entry is tagged at or below snap_id.
ResolveRaisesWhenMissing(history, idx) ==
    IF idx = 0 - 1
    THEN Raise("KeyError", "never existed")
    ELSE LET relevant_value == history[idx + 1].value IN
         IF relevant_value = None
         THEN Raise("KeyError", "did not exist in snapshot (it was deleted)")
         ELSE Return(relevant_value)

\* What follows the loop: the outcome for the index found.
Resolve(history, idx) ==
    IF idx = 0 - 1
    THEN Return(None)
    ELSE LET relevant_value == history[idx + 1].value IN
         IF relevant_value = None
         THEN Raise("KeyError", "did not exist in snapshot (it was deleted)")
         ELSE Return(relevant_value)

GetFromSnapshot(store, n, k, snap_id) ==
    IF ~InRange(snap_id, n)
    THEN Raise("IndexError", "invalid snap_id")
    ELSE LET history == StoreGet(store, k) IN
         IF history = <<>>
         THEN Raise("KeyError", "never existed")
         ELSE Resolve(history, BinarySearch(history, snap_id, 0, Len(history) - 1, 0 - 1))

\* --------------------------------------------- the other parts, at rest
SearchIdle == [pc |-> "idle", history |-> <<>>, snap_id |-> 0,
               left |-> 0, right |-> 0, idx |-> 0]

\* Two callers (threads) of take_snapshot on one map, not serialised: pc is
\* where each stands, snap_id and tmp are its locals, calls counts its calls,
\* returned lists the values returned in the order of the returns, and
\* overlapped says whether a call ever began while another was under way.
Callers == {1, 2}

RaceIdle == [pc |-> [t \in Callers |-> "idle"],
             snap_id |-> [t \in Callers |-> 0],
             tmp |-> [t \in Callers |-> 0],
             calls |-> [t \in Callers |-> 0],
             returned |-> <<>>,
             overlapped |-> FALSE]

ValidatorIdle == [json_string |-> <<>>, pos |-> 0, allow_arrays |-> FALSE,
                  called |-> FALSE, result |-> FALSE]

\* ------------------------------------------------------------- actions
\* The caller is sequential: it makes a call, takes its outcome (Consume), and
\* only then makes the next call.  ret is Idle between calls.  prev and len are
\* pending[k] and the length of k's list before the call.
Call(op, k, v, s, res, prev, len) ==
    [op |-> op, k |-> k, value |-> v, snap_id |-> s, res |-> res, prev |-> prev, len |-> len]

Idle == Call("idle", "", None, 0, Return(None), <<>>, 0)

Init ==
    /\ key_history_store = <<>>
    /\ next_snap_id = 0
    /\ snapshots = <<>>
    /\ views = <<>>
    /\ lastWrite = [k \in Keys |-> <<>>]
    /\ pending = [k \in Keys |-> <<>>]
    /\ ret = Idle
    /\ search = SearchIdle
    /\ race = RaceIdle
    /\ validator = ValidatorIdle

TakeSnapshot ==
    /\ ret = Idle
    /\ next_snap_id < MaxSnap
    /\ LET snap_id == TakeSnapshotReturn(next_snap_id) IN
        /\ next_snap_id' = IncrementSnapId(next_snap_id)
        /\ snapshots' = Append(snapshots, snap_id)
        /\ ret' = Call("take_snapshot", "", None, 0, Return(Some(snap_id)), <<>>, 0)
    /\ views' = Append(views, [k \in Keys |-> Get(key_history_store, k)])
    /\ pending' = [k \in Keys |-> <<>>]
    /\ UNCHANGED <<key_history_store, lastWrite>>
    /\ UNCHANGED others

Put(k, v) ==
    /\ ret = Idle
    /\ key_history_store' = PutStore(key_history_store, next_snap_id, k, v)
    /\ lastWrite' = [lastWrite EXCEPT ![k] = <<v>>]
    /\ pending' = [pending EXCEPT ![k] = <<v>>]
    /\ ret' = Call("put", k, v, 0, Return(None), pending[k],
                   Len(StoreGet(key_history_store, k)))
    /\ UNCHANGED <<next_snap_id, snapshots, views>>
    /\ UNCHANGED others

Delete(k) ==
    /\ ret = Idle
    /\ key_history_store' = DeleteStore(key_history_store, next_snap_id, k)
    /\ lastWrite' = [lastWrite EXCEPT ![k] = <<None>>]
    /\ pending' = IF k \in DOMAIN key_history_store
                  THEN [pending EXCEPT ![k] = <<None>>]
                  ELSE pending
    /\ ret' = Call("delete", k, None, 0, Return(None), pending[k],
                   Len(StoreGet(key_history_store, k)))
    /\ UNCHANGED <<next_snap_id, snapshots, views>>
    /\ UNCHANGED others

GetCall(k) ==
    /\ ret = Idle
    /\ ret' = Call("get", k, None, 0, Get(key_history_store, k), pending[k],
                   Len(StoreGet(key_history_store, k)))
    /\ key_history_store' = StoreAfterLookup(key_history_store, k)
    /\ UNCHANGED <<next_snap_id, snapshots, views, lastWrite, pending>>
    /\ UNCHANGED others

GetFromSnapshotCall(k, snap_id) ==
    /\ ret = Idle
    /\ ret' = Call("get_from_snapshot", k, None, snap_id,
                   GetFromSnapshot(key_history_store, next_snap_id, k, snap_id),
                   pending[k], Len(StoreGet(key_history_store, k)))
    /\ key_history_store' = IF InRange(snap_id, next_snap_id)
                            THEN StoreAfterLookup(key_history_store, k)
                            ELSE key_history_store
    /\ UNCHANGED <<next_snap_id, snapshots, views, lastWrite, pending>>
    /\ UNCHANGED others

Consume ==
    /\ ret # Idle
    /\ ret' = Idle
    /\ UNCHANGED <<key_history_store, next_snap_id, snapshots, views, lastWrite, pending>>
    /\ UNCHANGED others

Next ==
    \/ TakeSnapshot
    \/ \E k \in Keys, v \in Values : Put(k, v)
    \/ \E k \in Keys : Delete(k)
    \/ \E k \in Keys : GetCall(k)
    \/ \E k \in Keys, snap_id \in SnapArgs(next_snap_id) : GetFromSnapshotCall(k, snap_id)
    \/ Consume

allvars == <<vars, others>>

Spec == Init /\ [][Next]_allvars

\* ------------------------------------- the binary search, step by step
\* The lists the loop of get_from_snapshot can be given hold at least one
\* entry, tagged in strictly increasing order.  MaxVersion is the greatest tag.
MaxVersion == 3

\* The i-th smallest element of a set of numbers.
Nth(S, i) == CHOOSE x \in S : Cardinality({y \in S : y < x}) = i - 1

Histories ==
    UNION {{[i \in 1..Cardinality(S) |-> HistoryEntry(Nth(S, i), f[Nth(S, i)])] :
                f \in [S -> Values]} :
            S \in (SUBSET (0..MaxVersion)) \ {{}}}

\* left, right = 0, len(history) - 1; idx = -1
SearchStart(history, snap_id) ==
    /\ search.pc = "idle"
    /\ search' = [pc |-> "loop", history |-> history, snap_id |-> snap_id,
                  left |-> 0, right |-> Len(history) - 1, idx |-> 0 - 1]
    /\ UNCHANGED <<vars, race, validator>>

\* Faulty variant: compares with < instead of <=.
LoopIterationStrict(st) ==
    LET mid == (st.left + st.right) \div 2 IN
    IF st.history[mid + 1].snap_id < st.snap_id
    THEN [st EXCEPT !.idx = mid, !.left = mid + 1]
    ELSE [st EXCEPT !.right = mid - 1]

\* Faulty variant: left = mid, so the interval need not shrink.
LoopIterationNoProgress(st) ==
    LET mid == (st.left + st.right) \div 2 IN
    IF st.history[mid + 1].snap_id <= st.snap_id
    THEN [st EXCEPT !.idx = mid, !.left = mid]
    ELSE [st EXCEPT !.right = mid - 1]

\* The body of the while loop.
LoopIteration(st) ==
    LET mid == (st.left + st.right) \div 2 IN
    IF st.history[mid + 1].snap_id <= st.snap_id
    THEN [st EXCEPT !.idx = mid, !.left = mid + 1]
    ELSE [st EXCEPT !.right = mid - 1]

\* while left <= right: one iteration.
SearchIterate ==
    /\ search.pc = "loop"
    /\ search.left <= search.right
    /\ search' = LoopIteration(search)
    /\ UNCHANGED <<vars, race, validator>>

\* The loop condition fails: the loop is left.
SearchExit ==
    /\ search.pc = "loop"
    /\ ~(search.left <= search.right)
    /\ search' = [search EXCEPT !.pc = "done"]
    /\ UNCHANGED <<vars, race, validator>>

SearchNext ==
    \/ \E history \in Histories, snap_id \in 0..MaxVersion : SearchStart(history, snap_id)
    \/ SearchIterate
    \/ SearchExit

\* A running loop keeps running: its steps are taken as long as they can be.
SpecSearch ==
    Init /\ [][SearchNext]_allvars /\ WF_allvars(SearchIterate \/ SearchExit)

\* ------------------------------------------------------- json_validator.py
\* A string is a sequence of one-character strings; positions count from 0
\* as in the source.
At(s, pos) == s[pos + 1]

IsSpace(c) == c \in {" ", "\t", "\n", "\r"}

Quote == "\""

Backslash == "\\"

Result(ok, pos) == [ok |-> ok, pos |-> pos]

\* _skip_whitespace: the position after any whitespace at pos.
RECURSIVE SkipWhitespace(_, _)
SkipWhitespace(s, pos) ==
    IF pos < Len(s) /\ IsSpace(At(s, pos))
    THEN SkipWhitespace(s, pos + 1)
    ELSE pos

\* _parse_literal: a slice that runs past the end is shorter than the literal.
ParseLiteral(s, pos, literal) ==
    IF pos + Len(literal) <= Len(s) /\ SubSeq(s, pos + 1, pos + Len(literal)) = literal
    THEN Result(TRUE, pos + Len(literal))
    ELSE Result(FALSE, pos)

\* The while loop of _parse_string, translated branch by branch.
RECURSIVE StringLoop(_, _)
StringLoop(s, pos) ==
    IF pos < Len(s) /\ At(s, pos) # Quote
    THEN IF At(s, pos) = Quote /\ pos + 1 < Len(s)
         THEN StringLoop(s, pos + 2)
         ELSE StringLoop(s, pos + 1)
    ELSE pos

\* _parse_string
ParseString(s, pos) ==
    IF pos >= Len(s) \/ At(s, pos) # Quote
    THEN Result(FALSE, pos)
    ELSE LET p == StringLoop(s, pos + 1) IN
         IF p >= Len(s) \/ At(s, p) # Quote
         THEN Result(FALSE, p)
         ELSE Result(TRUE, p + 1)

RECURSIVE ParseValue(_, _, _)
RECURSIVE ParseCommaSeparatedValues(_, _, _, _, _)

\* _parse_key_value_pair
ParseKeyValuePair(s, pos, allow_arrays) ==
    LET key == ParseString(s, SkipWhitespace(s, pos)) IN
    IF ~key.ok
    THEN key
    ELSE LET p == SkipWhitespace(s, key.pos) IN
         IF p >= Len(s) \/ At(s, p) # ":"
         THEN Result(FALSE, p)
         ELSE ParseValue(s, SkipWhitespace(s, p + 1), allow_arrays)

\* parse_func() inside _parse_comma_separated_values: the bound method passed
\* by _parse_object or by _parse_array.
ParseFunc(parse_func, s, pos, allow_arrays) ==
    IF parse_func = "_parse_key_value_pair"
    THEN ParseKeyValuePair(s, pos, allow_arrays)
    ELSE ParseValue(s, pos, allow_arrays)

\* _parse_comma_separated_values
ParseCommaSeparatedValues(parse_func, end_char, s, pos, allow_arrays) ==
    IF ~(pos < Len(s))
    THEN Result(FALSE, pos)
    ELSE LET item == ParseFunc(parse_func, s, SkipWhitespace(s, pos), allow_arrays) IN
         IF ~item.ok
         THEN Result(FALSE, item.pos)
         ELSE LET p == SkipWhitespace(s, item.pos) IN
              IF p < Len(s) /\ At(s, p) = end_char
              THEN Result(TRUE, p + 1)
              ELSE IF p >= Len(s) \/ At(s, p) # ","
                   THEN Result(FALSE, p)
                   ELSE ParseCommaSeparatedValues(parse_func, end_char, s, p + 1,
                                                  allow_arrays)

\* _parse_object
ParseObject(s, pos, allow_arrays) ==
    IF pos >= Len(s) \/ At(s, pos) # "{"
    THEN Result(FALSE, pos)
    ELSE LET p == SkipWhitespace(s, pos + 1) IN
         IF p < Len(s) /\ At(s, p) = "}"
         THEN Result(TRUE, p + 1)
         ELSE ParseCommaSeparatedValues("_parse_key_value_pair", "}", s, p,
                                        allow_arrays)

\* _parse_array
ParseArray(s, pos, allow_arrays) ==
    IF pos >= Len(s) \/ At(s, pos) # "["
    THEN Result(FALSE, pos)
    ELSE LET p == SkipWhitespace(s, pos + 1) IN
         IF p < Len(s) /\ At(s, p) = "]"
         THEN Result(TRUE, p + 1)
         ELSE ParseCommaSeparatedValues("_parse_value", "]", s, p, allow_arrays)

\* _parse_value
ParseValue(s, pos, allow_arrays) ==
    LET p == SkipWhitespace(s, pos) IN
    IF p >= Len(s)
    THEN Result(FALSE, p)
    ELSE LET char == At(s, p) IN
         IF char = "{" THEN ParseObject(s, p, allow_arrays)
         ELSE IF char = Quote THEN ParseString(s, p)
         ELSE IF char = "n" THEN ParseLiteral(s, p, <<"n", "u", "l", "l">>)
         ELSE IF allow_arrays /\ char = "[" THEN ParseArray(s, p, allow_arrays)
         ELSE Result(FALSE, p)

\* validate: the three fields are overwritten, then the parser runs on them;
\* the instance keeps the fields and the final position.
Validate(self, json_string, allow_arrays) ==
    LET reset == [self EXCEPT !.json_string = json_string,
                              !.pos = 0,
                              !.allow_arrays = allow_arrays]
        value == ParseValue(reset.json_string, reset.pos, reset.allow_arrays)
        pos == SkipWhitespace(reset.json_string, value.pos)
    IN [reset EXCEPT !.pos = pos,
                     !.called = TRUE,
                     !.result = value.ok /\ pos = Len(reset.json_string)]

\* The inputs.  A document carries its text and what the JSON grammar says of
\* it: whether it is well formed, whether an array stands at a value position
\* in it, and whether one of its strings holds an escaped quote.
Document(text, well_formed, has_array, has_escape) ==
    [text |-> text, well_formed |-> well_formed,
     has_array |-> has_array, has_escape |-> has_escape]

\* The test cases of the source.
\*  { "key" : "value", "nested" : { "a" : "b" } } 
valid_obj_str ==
    <<" ", "{", " ", Quote, "k", "e", "y", Quote, " ", ":", " ", Quote,
      "v", "a", "l", "u", "e", Quote, ",", " ", Quote, "n", "e", "s", "t",
      "e", "d", Quote, " ", ":", " ", "{", " ", Quote, "a", Quote, " ",
      ":", " ", Quote, "b", Quote, " ", "}", " ", "}", " ">>

\* [ { "key": [ "v1", "v2" ] }, "second" ]
valid_with_array ==
    <<"[", " ", "{", " ", Quote, "k", "e", "y", Quote, ":", " ", "[", " ",
      Quote, "v", "1", Quote, ",", " ", Quote, "v", "2", Quote, " ", "]",
      " ", "}", ",", " ", Quote, "s", "e", "c", "o", "n", "d", Quote, " ",
      "]">>

\*  { "key": null, "other": "value" } 
valid_with_null ==
    <<" ", "{", " ", Quote, "k", "e", "y", Quote, ":", " ", "n", "u", "l",
      "l", ",", " ", Quote, "o", "t", "h", "e", "r", Quote, ":", " ",
      Quote, "v", "a", "l", "u", "e", Quote, " ", "}", " ">>

\* {"key": 123}
invalid_number ==
    <<"{", Quote, "k", "e", "y", Quote, ":", " ", "1", "2", "3", "}">>

\* ["a", "b"]
invalid_array_in_step1 ==
    <<"[", Quote, "a", Quote, ",", " ", Quote, "b", Quote, "]">>

\* {"key": "value",}
invalid_trailing_comma ==
    <<"{", Quote, "k", "e", "y", Quote, ":", " ", Quote, "v", "a", "l",
      "u", "e", Quote, ",", "}">>

\* {"key": "value
invalid_unterminated_str ==
    <<"{", Quote, "k", "e", "y", Quote, ":", " ", Quote, "v", "a", "l",
      "u", "e">>

TestCases ==
    {Document(valid_obj_str, TRUE, FALSE, FALSE),
     Document(valid_with_array, TRUE, TRUE, FALSE),
     Document(valid_with_null, TRUE, FALSE, FALSE),
     Document(invalid_number, FALSE, FALSE, FALSE),
     Document(invalid_array_in_step1, TRUE, TRUE, FALSE),
     Document(invalid_trailing_comma, FALSE, FALSE, FALSE),
     Document(invalid_unterminated_str, FALSE, FALSE, FALSE)}

\* String tokens: "a", "" and "a\"b".
PlainStrings == {<<Quote, "a", Quote>>, <<Quote, Quote>>}

EscapedStrings == {<<Quote, "a", Backslash, Quote, "b", Quote>>}

Leaves ==
    {Document(t, TRUE, FALSE, FALSE) : t \in PlainStrings}
    \cup {Document(t, TRUE, FALSE, TRUE) : t \in EscapedStrings}
    \cup {Document(<<"n", "u", "l", "l">>, TRUE, FALSE, FALSE)}

Member(x) == <<Quote, "k", Quote, ":">> \o x.text

\* Well-formed documents nested at most depth deep: leaves, empty and
\* one-element arrays and objects of shallower documents, and two-element
\* arrays and objects of leaves.
MaxDepth == 2

RECURSIVE Documents(_)
Documents(depth) ==
    IF depth = 0
    THEN Leaves
    ELSE LET sub == Documents(depth - 1) IN
         sub
         \cup {Document(<<"[", "]">>, TRUE, TRUE, FALSE),
               Document(<<"{", "}">>, TRUE, FALSE, FALSE)}
         \cup {Document(<<"[">> \o x.text \o <<"]">>, TRUE, TRUE, x.has_escape)
               : x \in sub}
         \cup {Document(<<"{">> \o Member(x) \o <<"}">>, TRUE, x.has_array,
                        x.has_escape) : x \in sub}
         \cup {Document(<<"[">> \o x.text \o <<",">> \o y.text \o <<"]">>, TRUE,
                        TRUE, x.has_escape \/ y.has_escape)
               : x \in Leaves, y \in Leaves}
         \cup {Document(<<"{">> \o Member(x) \o <<",">> \o Member(y) \o <<"}">>,
                        TRUE, FALSE, x.has_escape \/ y.has_escape)
               : x \in Leaves, y \in Leaves}

Inputs == Documents(MaxDepth) \cup TestCases

\* validator.validate(json_string, allow_arrays=...) on the single instance.
ValidateCall(d, allow_arrays) ==
    /\ validator' = Validate(validator, d.text, allow_arrays)
    /\ UNCHANGED <<vars, search, race>>

JsonNext == \E d \in Inputs, allow_arrays \in BOOLEAN : ValidateCall(d, allow_arrays)

SpecJson == Init /\ [][JsonNext]_allvars

\* What the JSON grammar says of the text last validated.
Validated == {d \in Inputs : d.text = validator.json_string}

\* ------------------------------------------ take_snapshot, unsynchronised
\* Each caller makes at most MaxCalls calls.
MaxCalls == 2

\* snap_id: int = self._next_snap_id (the call begins with this read).
RaceRead(t) ==
    /\ race.pc[t] = "idle"
    /\ race.calls[t] < MaxCalls
    /\ race' = [race EXCEPT !.pc[t] = "load",
                            !.snap_id[t] = TakeSnapshotReturn(next_snap_id),
                            !.calls[t] = @ + 1,
                            !.overlapped = @ \/ (\E u \in Callers \ {t} : race.pc[u] # "idle")]
    /\ UNCHANGED <<vars, search, validator>>

\* self._next_snap_id += 1, first half: the counter is read.
RaceLoad(t) ==
    /\ race.pc[t] = "load"
    /\ race' = [race EXCEPT !.pc[t] = "store", !.tmp[t] = next_snap_id]
    /\ UNCHANGED <<vars, search, validator>>

\* self._next_snap_id += 1, second half: the sum is written; return snap_id.
RaceStore(t) ==
    /\ race.pc[t] = "store"
    /\ next_snap_id' = IncrementSnapId(race.tmp[t])
    /\ race' = [race EXCEPT !.pc[t] = "idle",
                            !.returned = Append(@, race.snap_id[t])]
    /\ UNCHANGED <<key_history_store, snapshots, views, lastWrite, pending, ret>>
    /\ UNCHANGED <<search, validator>>

RaceNext ==
    \/ \E t \in Callers : RaceRead(t)
    \/ \E t \in Callers : RaceLoad(t)
    \/ \E t \in Callers : RaceStore(t)

SpecRace == Init /\ [][RaceNext]_allvars

\* ---------------------------------------------------------- properties
Last(h) == h[Len(h)]

\* The calls that wrote to their key: every put, and a delete of a key that
\* has a list.
IsWrite(c) ==
    \/ c.op = "put"
    \/ c.op = "delete" /\ c.len > 0

IsInt(res) == res.kind = "return" /\ res.value # None

\* The entries of a list that are tagged below n, in order.
Closed(history, n) ==
    LET Below(e) == e.snap_id < n IN SelectSeq(history, Below)

\* The index (1-based) of the last entry tagged at or below v, by a scan; 0 if none.
ScanLast(history, v) ==
    LET S == {i \in 1..Len(history) : history[i].snap_id <= v} IN
    IF S = {} THEN 0 ELSE CHOOSE i \in S : \A j \in S : j <= i

\* C1: historical correctness.  For every version v some take_snapshot call
\* returned and every key k, in every later state get_from_snapshot(k, v)
\* returns the integer x exactly when get(k), called right after that
\* take_snapshot, returned x; when that get(k) failed, get_from_snapshot(k, v)
\* returns no integer.
C1_HistoricalCorrectness ==
    /\ ret = Idle =>
        \A i \in 1..Len(snapshots) : \A k \in Keys :
            LET g == views[i][k]
                h == GetFromSnapshot(key_history_store, next_snap_id, k, snapshots[i])
            IN  IF IsInt(g) THEN h = g ELSE ~IsInt(h)
    /\ (ret.op = "get_from_snapshot" /\ \E i \in 1..Len(snapshots) : snapshots[i] = ret.snap_id)
        => \A i \in 1..Len(snapshots) :
            snapshots[i] = ret.snap_id =>
                IF IsInt(views[i][ret.k]) THEN ret.res = views[i][ret.k] ELSE ~IsInt(ret.res)

\* A lookup in snapshot 0 returned 1 after the key was put again (now 2) and
\* two snapshots were taken.
C1_Witness ==
    /\ ret.op = "get_from_snapshot"
    /\ ret.snap_id = 0
    /\ next_snap_id >= 2
    /\ ret.res = Return(Some(1))
    /\ Get(key_history_store, ret.k) = Return(Some(2))

\* C2: monotonic versions.  The i-th take_snapshot call, counting from 0,
\* returns i, whatever calls are made in between.
C2_MonotonicVersions ==
    /\ \A i \in 1..Len(snapshots) : snapshots[i] = i - 1
    /\ ret.op = "take_snapshot" => ret.res = Return(Some(Len(snapshots) - 1))

\* The second take_snapshot call has returned, with writes made before it.
C2_Witness ==
    /\ ret.op = "take_snapshot"
    /\ Len(snapshots) = 2
    /\ \E k \in DOMAIN key_history_store : Len(key_history_store[k]) = 2

\* C3: current-value correctness.  get(k) returns x if and only if the most
\* recent put or delete on k was put(k, x) with x an integer; otherwise (a
\* delete, or no put at all) it fails with KeyError.
C3_CurrentValue ==
    /\ ret = Idle =>
        \A k \in Keys :
            LET g == Get(key_history_store, k) IN
            IF lastWrite[k] # <<>> /\ lastWrite[k][1] # None
            THEN g = Return(lastWrite[k][1])
            ELSE g.kind = "KeyError"
    /\ ret.op = "get" =>
        IF lastWrite[ret.k] # <<>> /\ lastWrite[ret.k][1] # None
        THEN ret.res = Return(lastWrite[ret.k][1])
        ELSE ret.res.kind = "KeyError"

\* get returned 2 for a key whose list starts with another value.
C3_Witness ==
    /\ ret.op = "get"
    /\ ret.res = Return(Some(2))
    /\ Len(key_history_store[ret.k]) >= 2
    /\ key_history_store[ret.k][1].value = Some(1)

\* C4: closed snapshots are immutable.  Once take_snapshot has returned v, no
\* call changes, removes or inserts an entry tagged v or below, for any key:
\* in every step the entries tagged below the counter stay as they are.
C4_ClosedImmutable ==
    [][\A k \in Keys :
        Closed(StoreGet(key_history_store', k), next_snap_id)
            = Closed(StoreGet(key_history_store, k), next_snap_id)]_vars

\* A put, the first since the last take_snapshot, on a key that has closed entries.
C4_Witness ==
    /\ ret.op = "put"
    /\ ret.prev = <<>>
    /\ ret.len >= 1
    /\ next_snap_id >= 1
    /\ Closed(key_history_store[ret.k], next_snap_id) # <<>>

\* C5: timeline ordering.  For every key the versions of its entries are
\* strictly increasing, and each lies between 0 and the counter, inclusive.
C5_TimelineOrdering ==
    \A k \in DOMAIN key_history_store :
        LET history == key_history_store[k] IN
        /\ \A i \in 1..Len(history) :
            0 <= history[i].snap_id /\ history[i].snap_id <= next_snap_id
        /\ \A i \in 1..(Len(history) - 1) :
            history[i].snap_id < history[i + 1].snap_id

\* A put on a key already written since the last take_snapshot, on a list of
\* three entries.
C5_Witness ==
    /\ ret.op = "put"
    /\ ret.prev # <<>>
    /\ Len(key_history_store[ret.k]) >= 3

\* C6: coalescing.  From every reachable state in which the caller can make a
\* call, put(k, x1) then put(k, x2) with no take_snapshot in between (a write
\* to another key may come in between) leaves the same map state as put(k, x2)
\* alone; the state between the two puts is itself reachable, so the same
\* holds of put(k, x1) ... put(k, xn).  And the list of a key written since
\* the last take_snapshot holds one entry for those writes, with the last
\* value put, and is no longer after the second put than after the first.
C6_Coalescing ==
    LET n == next_snap_id
        s == key_history_store
    IN
    /\ ret = Idle =>
        /\ \A k \in Keys, x1 \in Values, x2 \in Values :
            LET s1 == PutStore(s, n, k, x1) IN
            PutStore(s1, n, k, x2) = PutStore(s, n, k, x2)
        /\ \A k \in Keys, k2 \in Keys, x1 \in Values, x2 \in Values, y \in Values :
            k2 # k =>
                LET s1 == PutStore(s, n, k, x1)
                    s2 == PutStore(s1, n, k2, y)
                    t1 == PutStore(s, n, k2, y)
                IN  PutStore(s2, n, k, x2) = PutStore(t1, n, k, x2)
    /\ \A k \in Keys :
        LET history == StoreGet(s, k) IN
        IF pending[k] = <<>>
        THEN Closed(history, n) = history
        ELSE /\ Len(history) = Len(Closed(history, n)) + 1
             /\ Last(history) = HistoryEntry(n, pending[k][1])
    /\ (ret.op = "put" /\ ret.prev # <<>>) =>
        Len(key_history_store[ret.k]) = ret.len

\* put(k, 2) after put(k, 1) with no take_snapshot in between.
C6_Witness ==
    /\ ret.op = "put"
    /\ ret.prev = <<Some(1)>>
    /\ ret.value = Some(2)
    /\ next_snap_id >= 1
    /\ Len(key_history_store[ret.k]) = ret.len

\* C7: range validation.  get_from_snapshot(k, v) fails with IndexError
\* whenever v < 0 or v >= N, also when N = 0 and also for a key that has no
\* list, and never fails with IndexError when 0 <= v < N.
C7_RangeValidation ==
    /\ ret = Idle =>
        \A k \in Keys, v \in SnapArgs(next_snap_id) :
            (GetFromSnapshot(key_history_store, next_snap_id, k, v).kind = "IndexError")
                <=> (v < 0 \/ v >= next_snap_id)
    /\ ret.op = "get_from_snapshot" =>
        ((ret.res.kind = "IndexError") <=> (ret.snap_id < 0 \/ ret.snap_id >= next_snap_id))

\* IndexError for v = N, N > 0, on a key that was never written.
C7_Witness ==
    /\ ret.op = "get_from_snapshot"
    /\ ret.res.kind = "IndexError"
    /\ ret.snap_id = next_snap_id
    /\ next_snap_id >= 1
    /\ ret.k \notin DOMAIN key_history_store

C9_DeletedAtSnapshot ==
    /\ ret = Idle =>
        \A k \in DOMAIN key_history_store, v \in 0..(next_snap_id - 1) :
            LET history == key_history_store[k]
                i == ScanLast(history, v)
            IN  (i > 0 /\ history[i].value = None) =>
                    GetFromSnapshot(key_history_store, next_snap_id, k, v)
                        = Raise("KeyError", "did not exist in snapshot (it was deleted)")
    /\ (/\ ret.op = "get_from_snapshot"
        /\ 0 <= ret.snap_id /\ ret.snap_id < next_snap_id
        /\ ret.k \in DOMAIN key_history_store) =>
        LET history == key_history_store[ret.k]
            i == ScanLast(history, ret.snap_id)
        IN  (i > 0 /\ history[i].value = None) =>
                ret.res = Raise("KeyError", "did not exist in snapshot (it was deleted)")

\* KeyError for a version at which the key was deleted, after an earlier put
\* and before a later one.
C9_Witness ==
    /\ ret.op = "get_from_snapshot"
    /\ ret.res.kind = "KeyError"
    /\ ret.k \in DOMAIN key_history_store
    /\ Len(key_history_store[ret.k]) = 3
    /\ ScanLast(key_history_store[ret.k], ret.snap_id) = 2
    /\ key_history_store[ret.k][1].value # None
    /\ key_history_store[ret.k][3].value # None

\* C10 as stated: after take_snapshot returned v, the first write to a key
\* before the next take_snapshot creates an entry tagged v.
C10_TaggedWithReturned ==
    (IsWrite(ret) /\ ret.prev = <<>> /\ snapshots # <<>>) =>
        /\ Len(key_history_store[ret.k]) = ret.len + 1
        /\ Last(key_history_store[ret.k]).snap_id = Last(snapshots)

\* C10 as amended: after take_snapshot returned v, the first write to a key
\* before the next take_snapshot creates an entry tagged v + 1, the value the
\* next take_snapshot will return.
C10_TaggedWithNext ==
    (IsWrite(ret) /\ ret.prev = <<>> /\ snapshots # <<>>) =>
        /\ Len(key_history_store[ret.k]) = ret.len + 1
        /\ Last(key_history_store[ret.k]).snap_id = Last(snapshots) + 1

\* A delete, the first write to its key since take_snapshot returned 1.
C10_Witness ==
    /\ ret.op = "delete"
    /\ ret.len > 0
    /\ ret.prev = <<>>
    /\ snapshots # <<>>
    /\ Last(snapshots) = 1

\* C11: clock frame.  take_snapshot increases the counter by exactly 1 and
\* leaves every list and the set of keys as they are; no other call changes
\* the counter, so it never decreases.
C11_ClockFrame ==
    [][/\ (ret = Idle /\ ret'.op = "take_snapshot") =>
            /\ next_snap_id' = next_snap_id + 1
            /\ key_history_store' = key_history_store
       /\ ret'.op # "take_snapshot" => next_snap_id' = next_snap_id
       /\ next_snap_id' >= next_snap_id]_vars

\* take_snapshot returned on a map in which both keys have a list.
C11_Witness ==
    /\ ret.op = "take_snapshot"
    /\ next_snap_id = 2
    /\ DOMAIN key_history_store = Keys

\* C12: reads never mutate.  Every get and get_from_snapshot call, whatever its
\* outcome, leaves the counter, the set of keys that have a list and every
\* list as they are; a read of a key never written creates no list for it.
C12_ReadsNeverMutate ==
    [][(ret = Idle /\ ret'.op \in {"get", "get_from_snapshot"}) =>
            /\ next_snap_id' = next_snap_id
            /\ DOMAIN key_history_store' = DOMAIN key_history_store
            /\ key_history_store' = key_history_store]_vars

\* get_from_snapshot raised KeyError for a key never written, with a valid
\* snap_id, and the key still has no list.
C12_Witness ==
    /\ ret.op = "get_from_snapshot"
    /\ ret.res = Raise("KeyError", "never existed")
    /\ ret.k \notin DOMAIN key_history_store
    /\ key_history_store # <<>>

\* C13: delete of an unseen key is a no-op.  delete(k) on a key never put
\* leaves the whole map state as it is (no list, no tombstone), so get(k) and
\* get_from_snapshot(k, v), v valid, fail afterwards with the same KeyError as
\* before.
C13_DeleteUnseenNoOp ==
    [][(ret = Idle /\ ret'.op = "delete" /\ ret'.k \notin DOMAIN key_history_store) =>
            LET k == ret'.k IN
            /\ key_history_store' = key_history_store
            /\ next_snap_id' = next_snap_id
            /\ Get(key_history_store', k) = Raise("KeyError", "not found in current map state")
            /\ Get(key_history_store', k) = Get(key_history_store, k)
            /\ \A v \in 0..(next_snap_id - 1) :
                /\ GetFromSnapshot(key_history_store', next_snap_id', k, v)
                    = Raise("KeyError", "never existed")
                /\ GetFromSnapshot(key_history_store', next_snap_id', k, v)
                    = GetFromSnapshot(key_history_store, next_snap_id, k, v)]_vars

\* delete returned for a key that has no list, after a snapshot and with the
\* other key written.
C13_Witness ==
    /\ ret.op = "delete"
    /\ ret.len = 0
    /\ ret.k \notin DOMAIN key_history_store
    /\ next_snap_id >= 1
    /\ key_history_store # <<>>

\* C14: history size bound.  Each list has at most N + 1 entries, N the number
\* of take_snapshot calls made so far, however many writes the key saw.
C14_HistorySizeBound ==
    \A k \in DOMAIN key_history_store :
        /\ Len(key_history_store[k]) <= next_snap_id + 1
        /\ Len(key_history_store[k]) <= Len(snapshots) + 1

\* A put on a key already written since the last take_snapshot, whose list is
\* at the bound.
C14_Witness ==
    /\ ret.op = "put"
    /\ ret.prev # <<>>
    /\ next_snap_id >= 1
    /\ Len(key_history_store[ret.k]) = next_snap_id + 1

\* C17 as stated: delete(k) on a key that has a list changes no entry of the
\* list and appends one tombstone entry.
C17_DeleteOnlyAppends ==
    [][(ret = Idle /\ ret'.op = "delete" /\ ret'.k \in DOMAIN key_history_store) =>
            LET old == key_history_store[ret'.k]
                new == key_history_store'[ret'.k]
            IN  /\ Len(new) = Len(old) + 1
                /\ SubSeq(new, 1, Len(old)) = old
                /\ Last(new).value = None]_vars

\* C17 as amended: delete(k) on a key that has a list removes and changes no
\* entry tagged below the counter N and leaves every other key as it is; it
\* appends one tombstone entry tagged N, unless the last entry is tagged N
\* already (the key was written since the last take_snapshot): then it
\* replaces the value of that entry by the tombstone and appends nothing.
C17_DeleteKeepsClosedEntries ==
    [][(ret = Idle /\ ret'.op = "delete" /\ ret'.k \in DOMAIN key_history_store) =>
            LET k == ret'.k
                old == key_history_store[k]
                new == key_history_store'[k]
            IN  /\ DOMAIN key_history_store' = DOMAIN key_history_store
                /\ \A x \in DOMAIN key_history_store \ {k} :
                    key_history_store'[x] = key_history_store[x]
                /\ Closed(new, next_snap_id) = Closed(old, next_snap_id)
                /\ Last(new) = HistoryEntry(next_snap_id, None)
                /\ IF Last(old).snap_id = next_snap_id
                   THEN /\ Len(new) = Len(old)
                        /\ SubSeq(new, 1, Len(old) - 1) = SubSeq(old, 1, Len(old) - 1)
                   ELSE /\ Len(new) = Len(old) + 1
                        /\ SubSeq(new, 1, Len(old)) = old]_vars

\* A delete of a key put since the last take_snapshot, on a list that has
\* closed entries: the list is as long as before.
C17_Witness ==
    /\ ret.op = "delete"
    /\ ret.prev \in {<<Some(1)>>, <<Some(2)>>}
    /\ ret.len >= 2
    /\ Len(key_history_store[ret.k]) = ret.len
    /\ Last(key_history_store[ret.k]) = HistoryEntry(next_snap_id, None)

\* C16: binary search equivalence.  For every list with strictly increasing
\* versions and every version v, the loop ends with idx at the index a linear
\* scan finds for the last entry tagged <= v, and with idx = -1 exactly when no
\* entry is tagged <= v.
C16_BinarySearchEquivalence ==
    search.pc = "done" =>
        /\ search.idx = ScanLast(search.history, search.snap_id) - 1
        /\ (search.idx = 0 - 1) <=>
            (\A i \in 1..Len(search.history) : search.history[i].snap_id > search.snap_id)
        /\ search.idx = BinarySearch(search.history, search.snap_id,
                                     0, Len(search.history) - 1, 0 - 1)

\* The loop ended on a list of four entries with the third one found, the
\* fourth being tagged above v.
C16_Witness ==
    /\ search.pc = "done"
    /\ Len(search.history) = 4
    /\ search.idx = 2
    /\ search.history[4].snap_id > search.snap_id

\* C18: termination.  The loop of get_from_snapshot always exits: each
\* iteration strictly shrinks the interval [left, right], and a loop that was
\* entered is left, for every list and every valid v.
C18_Termination ==
    /\ [][(search.pc = "loop" /\ search'.pc = "loop") =>
            /\ search'.right - search'.left < search.right - search.left
            /\ search.left <= search'.left
            /\ search'.right <= search.right]_search
    /\ (search.pc = "loop") ~> (search.pc = "done")

\* The loop was left after running on a list of four entries down to the last one.
C18_Witness ==
    /\ search.pc = "done"
    /\ Len(search.history) = 4
    /\ search.idx = 3
    /\ search.left = 4
    /\ search.right = 3

\* C19: unsynchronised snapshots race.  take_snapshot reads the counter and
\* later writes it.  As long as no call began while another was under way, the
\* values returned are 0, 1, 2, ... and the counter is their number; two
\* returned values are equal only if calls overlapped, and the counter never
\* exceeds the number of returns, so overlapping calls can only lose ids.  (The
\* witness is the race itself: two calls returned 0 and the counter is 1.)
C19_SnapshotRace ==
    LET quiet == \A t \in Callers : race.pc[t] = "idle"
        n == Len(race.returned)
    IN
    /\ ~race.overlapped =>
        /\ \A i \in 1..n : race.returned[i] = i - 1
        /\ quiet => next_snap_id = n
    /\ (\E i \in 1..n, j \in 1..n : i # j /\ race.returned[i] = race.returned[j])
        => race.overlapped
    /\ next_snap_id <= n
    /\ \A i \in 1..n : race.returned[i] <= i - 1

\* Both callers made one call, both calls returned 0, and the counter is 1.
C19_Witness ==
    /\ \A t \in Callers : race.pc[t] = "idle" /\ race.calls[t] = 1
    /\ race.returned = <<0, 0>>
    /\ next_snap_id = 1

\* C15: JSON validator array gating.  validate(s, allow_arrays=False) returns
\* False for every input in which an array stands at a value position;
\* validate(s, allow_arrays=True) returns True for every well-formed nesting of
\* strings, null, objects and arrays; and the result of a call is the result
\* the same arguments give on a fresh instance.
C15_ArrayGating ==
    validator.called =>
        /\ \A d \in Validated :
            /\ (d.has_array /\ ~validator.allow_arrays) => ~validator.result
            /\ (d.well_formed /\ validator.allow_arrays) => validator.result
        /\ validator.result =
            Validate(ValidatorIdle, validator.json_string, validator.allow_arrays).result

\* C20: JSON string escapes.  A well-formed document one of whose strings
\* holds an escaped quote is accepted (arrays allowed when it has one), and
\* the whole text is consumed.
C20_StringEscapes ==
    validator.called =>
        \A d \in Validated :
            (d.well_formed /\ d.has_escape /\ (d.has_array => validator.allow_arrays))
                => validator.result /\ validator.pos = Len(validator.json_string)

====
